---- MODULE Spec2Model ----
(***************************************************************************)
(* Model of the client side of the placeholder pipeline:                   *)
(*   - FormPage (frontend/app/form/page.tsx): the batch validation form    *)
(*     with its per-field retry counter, formatted-value confirmation and  *)
(*     auto-accept after three identical rejections;                       *)
(*   - FormProvider (frontend/context/FormContext.tsx): the shared state   *)
(*     and its setters;                                                    *)
(*   - ReviewPage.handleDownload: the value map sent to the fill endpoint; *)
(*   - Home and UploadZone (frontend/app/page.tsx, components/UploadZone): *)
(*     the choice of a file and the process request;                       *)
(*   - the server's pipeline (detect, analyze, fill): the python modules   *)
(*     are not part of the sources at hand, so Detect, Analyze and Fill    *)
(*     follow the design document and the README's list of patterns.       *)
(* The validator is a remote service; its answer is an input of the model, *)
(* and so is the answer of the semantic oracle.                            *)
(*                                                                         *)
(* Conventions: a nullable value is a sequence of length 0 (null) or 1;    *)
(* a JavaScript object used as a map is a function whose DOMAIN is the set *)
(* of its keys; state.values is total over the field keys with "" standing *)
(* for a missing entry (every read of it is `|| ''`, `?.trim()` or a       *)
(* truthiness test); confidence is counted in tenths.  The write-only      *)
(* formState.validationResults is left out.                                *)
(***************************************************************************)
EXTENDS Integers, Sequences, FiniteSets, TLC

VARIABLES
  state,       \* FormContext state: placeholders, values
  formState,   \* FormPage state: isValidating, fieldStates, hasIssues
  page,        \* the mounted page: "form" or "review"
  inflight,    \* validateBatch requests awaiting their response, each with
               \* the closure (state, formState) of the render that sent it
  navTimers,   \* pending setTimeout(() => router.push('/review'), 500)
  sent,        \* the value map last passed to apiService.fillDocument
  last,        \* observer: the handler that ran last and the field it ran for
  streak,      \* observer: per field, the run of identical rejections
  writer,      \* observer: per field, who wrote state.values[field] last
  editsInFlight, \* observer: edits made since the pending request was sent
  pipe,        \* one run of the server's pipeline: detect, analyze, fill
  upload       \* Home and UploadZone: local state and pending process requests

vars == <<state, formState, page, inflight, navTimers, sent, last, streak, writer, editsInFlight,
         pipe, upload>>

----------------------------------------------------------------------------
(* Bounds *)
MaxRetryCount == 4
MaxEditsInFlight == 1
MaxFills == 2
MaxTextLen == 6
MaxUploads == 2

(* Program constants *)
ConfidenceThreshold == 6
AutoAcceptRetries == 3
\* 50 * 1024 * 1024 bytes
MaxFileSize == 52428800

FormattedValue == "$5,000.00"
\* what the user can type into a field
EnteredValues(f) == IF f = "[Email]" THEN {"", "bob"} ELSE {"", "5000"}

None == <<>>
Some(x) == <<x>>

EmptyMap == [k \in {} |-> 0]
\* variant: the entries of the other keys are not carried over
PutAlone(m, k, v) == [x \in {k} |-> v]
\* { ...m, [k]: v }
Put(m, k, v) == [x \in (DOMAIN m) \cup {k} |-> IF x = k THEN v ELSE m[x]]

(* The analyses returned by /api/process for the document filled in on the *)
(* form: two different placeholders, the second one optional.              *)
PlaceholderLists ==
  { << [placeholder_text |-> "[Amount]", placeholder_id |-> "", required |-> TRUE],
       [placeholder_text |-> "[Email]", placeholder_id |-> "", required |-> FALSE] >> }

\* field.placeholder_id || field.placeholder_text
FieldKey(p) == IF p.placeholder_id # "" THEN p.placeholder_id ELSE p.placeholder_text

FieldKeys(ps) == {FieldKey(ps[i]) : i \in 1..Len(ps)}

\* String.prototype.trim on the strings of the model
Trim(s) == IF s = " " THEN "" ELSE s

----------------------------------------------------------------------------
(* FormPage: per-field state *)

ClearedFieldState ==
  [validationResult |-> None, awaitingConfirmation |-> FALSE,
   retryCount |-> 0, lastErrorMessage |-> None]

\* the initial value of useState<FormState>
InitialFormState == [isValidating |-> FALSE, fieldStates |-> EmptyMap, hasIssues |-> FALSE]

\* prevFieldState?.lastErrorMessage === result.message
IsSameError(fieldStates, result) ==
  /\ result.field \in DOMAIN fieldStates
  /\ fieldStates[result.field].lastErrorMessage = Some(result.message)

\* variant: a repeated reason does not advance the count
RetryCountStuck(fieldStates, result) ==
  IF IsSameError(fieldStates, result)
    THEN fieldStates[result.field].retryCount
    ELSE 1

\* variant: a new reason restarts the count at 0
RetryCountFromZero(fieldStates, result) ==
  IF IsSameError(fieldStates, result)
    THEN fieldStates[result.field].retryCount + 1
    ELSE 0

\* isSameError ? (prevFieldState?.retryCount || 0) + 1 : 1
UpdatedRetryCount(fieldStates, result) ==
  IF IsSameError(fieldStates, result)
    THEN fieldStates[result.field].retryCount + 1
    ELSE 1

\* !!(formatted_value && formatted_value !== state.values[field] && confidence >= 0.6)
ShouldConfirm(values, result) ==
  /\ result.formatted_value # ""
  /\ result.formatted_value # values[result.field]
  /\ result.confidence >= ConfidenceThreshold

\* the body of results.forEach for one result; c is the closure of the
\* render that sent the request, acc the locals fieldStates and hasIssues
ProcessResult(acc, result, c) ==
  IF ~result.is_valid
    THEN LET updatedRetryCount == UpdatedRetryCount(c.fieldStates, result)
         IN IF updatedRetryCount >= AutoAcceptRetries
              THEN [fieldStates |-> Put(acc.fieldStates, result.field,
                       [validationResult |-> Some([result EXCEPT !.is_valid = TRUE]),
                        awaitingConfirmation |-> FALSE,
                        retryCount |-> updatedRetryCount,
                        lastErrorMessage |-> Some(result.message)]),
                    hasIssues |-> FALSE]
              ELSE [fieldStates |-> Put(acc.fieldStates, result.field,
                       [validationResult |-> Some(result),
                        awaitingConfirmation |-> ShouldConfirm(c.values, result),
                        retryCount |-> updatedRetryCount,
                        lastErrorMessage |-> Some(result.message)]),
                    hasIssues |-> TRUE]
    ELSE [fieldStates |-> Put(acc.fieldStates, result.field,
             [validationResult |-> Some(result),
              awaitingConfirmation |-> FALSE,
              retryCount |-> 0,
              lastErrorMessage |-> None]),
          hasIssues |-> acc.hasIssues]

RECURSIVE ProcessResults(_, _, _, _)
ProcessResults(results, i, acc, c) ==
  IF i > Len(results) THEN acc
  ELSE ProcessResults(results, i + 1, ProcessResult(acc, results[i], c), c)

\* the locals after results.forEach
Processed(results, c) ==
  ProcessResults(results, 1, [fieldStates |-> EmptyMap, hasIssues |-> FALSE], c)

\* the second results.forEach: setValue(result.field, result.formatted_value)
\* for every result whose formatted value differs from the submitted value
RECURSIVE ApplyFormatted(_, _, _, _)
ApplyFormatted(values, results, i, c) ==
  IF i > Len(results) THEN values
  ELSE ApplyFormatted(
         IF results[i].formatted_value # c.values[results[i].field]
           THEN [values EXCEPT ![results[i].field] = results[i].formatted_value]
           ELSE values,
         results, i + 1, c)

----------------------------------------------------------------------------
(* The validator (POST /api/validate-batch): one result per validation, in *)
(* an order of its own choosing.                                           *)

\* the answers the validator can give for one validation: valid as entered,
\* valid but ambiguous with a normalised alternative, rejected with no
\* alternative (for either reason), rejected with an alternative at a
\* confidence on either side of the threshold.  An e-mail address has no
\* normalised form: it is accepted as entered or rejected.
Result(v, valid, amb, fv, conf, msg) ==
  [field |-> v.field, is_valid |-> valid, is_ambiguous |-> amb,
   formatted_value |-> fv, confidence |-> conf, message |-> msg]

ResultsFor(v) ==
  IF v.field = "[Email]"
    THEN { Result(v, TRUE, FALSE, v.value, 9, "Looks good"),
           Result(v, FALSE, FALSE, "", ConfidenceThreshold - 1, "invalid email format") }
    ELSE { Result(v, TRUE, FALSE, v.value, 9, "Looks good"),
           Result(v, TRUE, TRUE, FormattedValue, 9, "Looks good"),
           Result(v, FALSE, FALSE, "", ConfidenceThreshold - 1, "not a valid amount"),
           Result(v, FALSE, FALSE, "", ConfidenceThreshold, "invalid format"),
           Result(v, FALSE, FALSE, FormattedValue, ConfidenceThreshold - 1, "invalid format"),
           Result(v, FALSE, FALSE, FormattedValue, ConfidenceThreshold, "invalid format") }

Perms(n) == {p \in [1..n -> 1..n] : \A i, j \in 1..n : i # j => p[i] # p[j]}

\* the response bodies the validator can return for a request
ResultBatches(validations) ==
  LET n == Len(validations)
      all == UNION {ResultsFor(validations[k]) : k \in 1..n}
      choices == {c \in [1..n -> all] : \A k \in 1..n : c[k] \in ResultsFor(validations[k])}
  IN {[i \in 1..n |-> c[p[i]]] : c \in choices, p \in Perms(n)}

\* a validator that is a function of the value: a well-formed value is
\* valid, "5000" is rejected with its normalised form offered, anything
\* else is rejected outright
Verdict(v) ==
  IF v.value \in {FormattedValue, "a@b.c"}
    THEN Result(v, TRUE, FALSE, v.value, 9, "Looks good")
  ELSE IF v.field = "[Email]"
    THEN Result(v, FALSE, FALSE, "", ConfidenceThreshold - 1, "invalid email format")
  ELSE IF v.value = "5000"
    THEN Result(v, FALSE, FALSE, FormattedValue, ConfidenceThreshold, "invalid format")
  ELSE Result(v, FALSE, FALSE, "", ConfidenceThreshold - 1, "not a valid amount")

StableBatches(validations) ==
  LET n == Len(validations)
  IN {[i \in 1..n |-> Verdict(validations[p[i]])] : p \in Perms(n)}

----------------------------------------------------------------------------
(* Observers: they record what happened and never influence the program.   *)

NoStreak == [message |-> None, rejections |-> 0, untouched |-> 0]

\* the observers stop counting at the auto-accept threshold
Saturated(n) == IF n < AutoAcceptRetries THEN n + 1 ELSE n

\* rejections: completed submissions in a row that rejected the field with
\* the same message (a valid result, an accepted suggestion or a failed
\* request ends the run); untouched: those of them since the user last
\* edited the field or dismissed a suggestion for it
StreakStep(s, result) ==
  IF result.is_valid THEN NoStreak
  ELSE IF s.message = Some(result.message)
    THEN [message |-> s.message, rejections |-> Saturated(s.rejections),
          untouched |-> Saturated(s.untouched)]
    ELSE [message |-> Some(result.message), rejections |-> 1, untouched |-> 1]

ResultFields(results) == {results[i].field : i \in 1..Len(results)}

ResultOf(results, f) == results[CHOOSE i \in 1..Len(results) : results[i].field = f]

StreakAfter(results) ==
  [f \in DOMAIN streak |->
     IF f \in ResultFields(results) THEN StreakStep(streak[f], ResultOf(results, f))
     ELSE streak[f]]

Touched(f) == [streak EXCEPT ![f].untouched = 0]

WriterAfter(results, c) ==
  [f \in DOMAIN writer |->
     IF /\ f \in ResultFields(results)
        /\ ResultOf(results, f).formatted_value # c.values[f]
       THEN "validator" ELSE writer[f]]

Did(op, f) == [op |-> op, field |-> f]

----------------------------------------------------------------------------
(* FormPage handlers *)

Keys == FieldKeys(state.placeholders)

\* variant: a value of white space counts as filled in
MissingRequiredUntrimmed(st) ==
  {i \in 1..Len(st.placeholders) :
     /\ st.placeholders[i].required
     /\ st.values[FieldKey(st.placeholders[i])] = ""}

\* state.placeholders.filter(field => field.required && !values[key]?.trim())
MissingRequired(st) ==
  {i \in 1..Len(st.placeholders) :
     /\ st.placeholders[i].required
     /\ Trim(st.values[FieldKey(st.placeholders[i])]) = ""}

\* the indices kept by the filter of validationsToRun
ToValidate(st) ==
  {i \in 1..Len(st.placeholders) :
     \/ Trim(st.values[FieldKey(st.placeholders[i])]) # ""
     \/ st.placeholders[i].required}

RECURSIVE ValidationsFrom(_, _)
ValidationsFrom(st, i) ==
  IF i > Len(st.placeholders) THEN <<>>
  ELSE (IF i \in ToValidate(st)
          THEN << [field |-> FieldKey(st.placeholders[i]),
                   value |-> st.values[FieldKey(st.placeholders[i])]] >>
          ELSE <<>>) \o ValidationsFrom(st, i + 1)

ValidationsToRun(st) == ValidationsFrom(st, 1)

\* setValue of FormContext
SetValue(st, fieldId, value) == [st EXCEPT !.values[fieldId] = value]

\* the input's onChange: fires when the text of the input changes
HandleFieldChange(fieldId, value) ==
  /\ page = "form"
  /\ value # state.values[fieldId]
  /\ inflight # <<>> => editsInFlight < MaxEditsInFlight
  /\ editsInFlight' = IF inflight # <<>> THEN editsInFlight + 1 ELSE 0
  /\ state' = SetValue(state, fieldId, value)
  /\ formState' = [formState EXCEPT
                     !.fieldStates = Put(@, fieldId, ClearedFieldState)]
  /\ last' = Did("edit", fieldId)
  /\ streak' = Touched(fieldId)
  /\ writer' = [writer EXCEPT ![fieldId] = "user"]
  /\ UNCHANGED <<page, inflight, navTimers, sent, pipe, upload>>

\* the field state handleAcceptFormatted leaves
AcceptedFieldState(fieldState) ==
  [validationResult |-> fieldState.validationResult,
   awaitingConfirmation |-> FALSE,
   retryCount |-> 0,
   lastErrorMessage |-> None]

\* the Accept button is rendered only while the field awaits confirmation
HandleAcceptFormatted(fieldId) ==
  /\ page = "form"
  /\ fieldId \in DOMAIN formState.fieldStates
  /\ formState.fieldStates[fieldId].awaitingConfirmation
  /\ formState.fieldStates[fieldId].validationResult # None
  /\ formState.fieldStates[fieldId].validationResult[1].formatted_value # ""
  /\ state' = SetValue(state, fieldId,
                       formState.fieldStates[fieldId].validationResult[1].formatted_value)
  /\ formState' = [formState EXCEPT
                     !.fieldStates = Put(@, fieldId,
                        AcceptedFieldState(formState.fieldStates[fieldId]))]
  /\ last' = Did("accept", fieldId)
  /\ UNCHANGED editsInFlight
  /\ streak' = [streak EXCEPT ![fieldId] = NoStreak]
  /\ writer' = [writer EXCEPT ![fieldId] = "accept"]
  /\ UNCHANGED <<page, inflight, navTimers, sent, pipe, upload>>

\* the Edit button is rendered only while the field awaits confirmation
HandleRejectFormatted(fieldId) ==
  /\ page = "form"
  /\ fieldId \in DOMAIN formState.fieldStates
  /\ formState.fieldStates[fieldId].awaitingConfirmation
  /\ formState.fieldStates[fieldId].validationResult # None
  /\ formState' = [formState EXCEPT
                     !.fieldStates = Put(@, fieldId, ClearedFieldState)]
  /\ last' = Did("reject", fieldId)
  /\ UNCHANGED editsInFlight
  /\ streak' = Touched(fieldId)
  /\ UNCHANGED <<state, page, inflight, navTimers, sent, writer, pipe, upload>>

\* variant: the submit button stays enabled while a request is pending
SubmitEnabledWhileValidating ==
  /\ page = "form"
  /\ Len(state.placeholders) > 0

\* the submit button is disabled while formState.isValidating or when there
\* are no placeholders
SubmitEnabled ==
  /\ page = "form"
  /\ ~formState.isValidating
  /\ Len(state.placeholders) > 0

\* handleValidateAndSubmit when a required field is empty: early return
SubmitMissingRequired ==
  /\ SubmitEnabled
  /\ MissingRequired(state) # {}
  /\ formState' = [formState EXCEPT !.hasIssues = TRUE]
  /\ last' = Did("missing", "")
  /\ UNCHANGED editsInFlight
  /\ UNCHANGED <<state, page, inflight, navTimers, sent, streak, writer, pipe, upload>>

\* handleValidateAndSubmit up to the await of apiService.validateBatch
SubmitSend ==
  /\ SubmitEnabled
  /\ MissingRequired(state) = {}
  /\ \A f \in DOMAIN formState.fieldStates :
       formState.fieldStates[f].retryCount < MaxRetryCount
  /\ inflight' = Append(inflight,
        [validations |-> ValidationsToRun(state),
         values |-> state.values,
         fieldStates |-> formState.fieldStates])
  /\ formState' = [isValidating |-> TRUE, fieldStates |-> EmptyMap, hasIssues |-> FALSE]
  /\ last' = Did("send", "")
  /\ editsInFlight' = 0
  /\ UNCHANGED <<state, page, navTimers, sent, streak, writer, pipe, upload>>

\* the rest of the try block, run when validateBatch resolves with results.
\* After the form page is unmounted its setFormState calls have no effect.
ResolveWith(results) ==
  LET c == Head(inflight)
      out == Processed(results, c)
  IN /\ inflight' = Tail(inflight)
     /\ formState' = IF page = "form"
                       THEN [isValidating |-> FALSE,
                             fieldStates |-> out.fieldStates,
                             hasIssues |-> out.hasIssues]
                       ELSE formState
     /\ IF ~out.hasIssues
          THEN /\ state' = [state EXCEPT !.values = ApplyFormatted(@, results, 1, c)]
               /\ navTimers' = 1
               /\ writer' = WriterAfter(results, c)
          ELSE UNCHANGED <<state, navTimers, writer>>
     /\ last' = Did("resolve", "")
     /\ editsInFlight' = 0
     /\ streak' = StreakAfter(results)
     /\ UNCHANGED <<page, sent, pipe, upload>>

\* the validator answers as it pleases
BatchResolves ==
  /\ inflight # <<>>
  /\ \E results \in ResultBatches(Head(inflight).validations) : ResolveWith(results)

\* the validator gives the same answer for the same value every time
StableResolves ==
  /\ inflight # <<>>
  /\ \E results \in StableBatches(Head(inflight).validations) : ResolveWith(results)

\* the catch block, run when validateBatch rejects
BatchRejects ==
  /\ inflight # <<>>
  /\ inflight' = Tail(inflight)
  /\ formState' = IF page = "form"
                    THEN [formState EXCEPT !.isValidating = FALSE, !.hasIssues = TRUE]
                    ELSE formState
  /\ last' = Did("fail", "")
  /\ editsInFlight' = 0
  /\ streak' = [f \in DOMAIN streak |->
                  IF \E i \in 1..Len(Head(inflight).validations) :
                       Head(inflight).validations[i].field = f
                    THEN NoStreak ELSE streak[f]]
  /\ UNCHANGED <<state, page, navTimers, sent, writer, pipe, upload>>

\* the timer set after a clean batch fires: router.push('/review')
NavigateToReview ==
  /\ navTimers > 0
  /\ navTimers' = 0
  /\ page' = "review"
  /\ last' = Did("navigate", "")
  /\ UNCHANGED editsInFlight
  /\ UNCHANGED <<state, formState, inflight, sent, streak, writer, pipe, upload>>

----------------------------------------------------------------------------
(* ReviewPage *)

\* `${p.placeholder_text}__pos_${idx}`, idx counted from 0
PositionKey(text, idx) == text \o "__pos_" \o ToString(idx)

\* variant: the raw text is the only key
RECURSIVE ValuesFromByTextOnly(_, _, _)
ValuesFromByTextOnly(st, i, valuesForBackend) ==
  IF i > Len(st.placeholders) THEN valuesForBackend
  ELSE LET p == st.placeholders[i]
           value == st.values[FieldKey(p)]
       IN ValuesFromByTextOnly(st, i + 1,
            IF value # ""
              THEN Put(valuesForBackend, p.placeholder_text, value)
              ELSE valuesForBackend)

\* the forEach of handleDownload over state.placeholders, from the i-th on
RECURSIVE ValuesFrom(_, _, _)
ValuesFrom(st, i, valuesForBackend) ==
  IF i > Len(st.placeholders) THEN valuesForBackend
  ELSE LET p == st.placeholders[i]
           value == st.values[FieldKey(p)]
       IN ValuesFrom(st, i + 1,
            IF value # ""
              THEN Put(Put(valuesForBackend, p.placeholder_text, value),
                       PositionKey(p.placeholder_text, i - 1), value)
              ELSE valuesForBackend)

ValuesForBackend(st) == ValuesFrom(st, 1, EmptyMap)

\* handleDownload up to the call of apiService.fillDocument
HandleDownload ==
  /\ page = "review"
  /\ sent' = Some(ValuesForBackend(state))
  /\ last' = Did("download", "")
  /\ UNCHANGED editsInFlight
  /\ UNCHANGED <<state, formState, page, inflight, navTimers, streak, writer, pipe, upload>>

----------------------------------------------------------------------------
(* FormProvider: the state of the context and the rest of its setters.     *)
(* currentFieldIndex counts from 0 as in the code.                         *)

\* the state reset() installs, which is also the initial state
InitialState ==
  [file |-> None, placeholders |-> <<>>, values |-> EmptyMap,
   currentFieldIndex |-> 0, isLoading |-> FALSE, error |-> None]

Reset(st) == InitialState

SetFile(st, file) == [st EXCEPT !.file = file]

\* setPlaceholders; the keys of the new placeholders enter the value map
\* with "", the stand-in for a missing entry
SetPlaceholders(st, placeholders) ==
  [st EXCEPT !.placeholders = placeholders,
             !.values = [k \in (DOMAIN st.values) \cup FieldKeys(placeholders) |->
                           IF k \in DOMAIN st.values THEN st.values[k] ELSE ""]]

MathMin(a, b) == IF a < b THEN a ELSE b
MathMax(a, b) == IF a > b THEN a ELSE b

\* Math.min(prev.currentFieldIndex + 1, prev.placeholders.length - 1)
NextField(st) ==
  [st EXCEPT !.currentFieldIndex = MathMin(@ + 1, Len(st.placeholders) - 1)]

\* Math.max(prev.currentFieldIndex - 1, 0)
PreviousField(st) ==
  [st EXCEPT !.currentFieldIndex = MathMax(@ - 1, 0)]

SetLoading(st, isLoading) == [st EXCEPT !.isLoading = isLoading]

SetError(st, error) == [st EXCEPT !.error = error]

\* state.placeholders[state.currentFieldIndex] || null
GetCurrentField(st) ==
  IF st.currentFieldIndex >= 0 /\ st.currentFieldIndex < Len(st.placeholders)
    THEN Some(st.placeholders[st.currentFieldIndex + 1])
    ELSE None

\* a document has been processed and its placeholders stored
ProcessedState(placeholders, values) ==
  [InitialState EXCEPT !.file = Some([name |-> <<"a", ".", "d", "o", "c", "x">>, size |-> 0]),
                       !.placeholders = placeholders,
                       !.values = values]

----------------------------------------------------------------------------
(* UploadZone and Home.  A file is a name (a text) and a size in bytes;    *)
(* the health check Home makes on mount is left out.                       *)

DocxSuffix == <<".", "d", "o", "c", "x">>

\* String.prototype.endsWith
EndsWith(name, suffix) ==
  /\ Len(name) >= Len(suffix)
  /\ SubSeq(name, Len(name) - Len(suffix) + 1, Len(name)) = suffix

\* variant: the size is not looked at
ValidateFileByName(file) == EndsWith(file.name, DocxSuffix)

\* validateFile
ValidateFile(file) ==
  /\ EndsWith(file.name, DocxSuffix)
  /\ ~(file.size > MaxFileSize)

NoUpload ==
  [isDragActive |-> FALSE, selectedFileName |-> None, localError |-> None,
   pending |-> <<>>,    \* the files of the process requests awaiting their response
   received |-> <<>>,   \* observer: the files of the last drop or change event
   calls |-> 0]         \* observer: the number of calls of onFileSelect

\* handleFileSelect up to the await of apiService.processDocument: the
\* updates setLoading(true), reset(), setFile(file) in the order queued
FileSelected(st, file) ==
  SetFile(Reset(SetLoading(st, TRUE)), Some(file))

\* handleDrag
HandleDrag(type) ==
  /\ page = "upload"
  /\ upload' = [upload EXCEPT !.isDragActive = type \in {"dragenter", "dragover"}]
  /\ last' = Did(type, "")
  /\ UNCHANGED <<state, formState, page, inflight, navTimers, sent, streak, writer,
                 editsInFlight, pipe>>

\* what handleDrop and handleChange do with the files of their event, the
\* call of onFileSelect = Home.handleFileSelect included
SelectFrom(files, op, isDragActive) ==
  /\ page = "upload"
  /\ last' = Did(op, "")
  /\ IF files # <<>> /\ ValidateFile(files[1])
       THEN /\ upload.calls < MaxUploads
            /\ upload' = [upload EXCEPT !.isDragActive = isDragActive,
                                        !.selectedFileName = Some(files[1].name),
                                        !.localError = None,
                                        !.pending = Append(@, files[1]),
                                        !.received = files,
                                        !.calls = @ + 1]
            /\ state' = FileSelected(state, files[1])
       ELSE /\ upload' = [upload EXCEPT !.isDragActive = isDragActive,
                                        !.received = files]
            /\ UNCHANGED state
  /\ UNCHANGED <<formState, page, inflight, navTimers, sent, streak, writer,
                 editsInFlight, pipe>>

HandleDrop(files) == SelectFrom(files, "drop", FALSE)

\* the input is disabled while isLoading
HandleChange(files) ==
  /\ ~state.isLoading
  /\ SelectFrom(files, "change", upload.isDragActive)

Without(seq, i) == SubSeq(seq, 1, i - 1) \o SubSeq(seq, i + 1, Len(seq))

\* the rest of the try block of handleFileSelect for a successful response:
\* setPlaceholders, setLoading(false), router.push('/form').  FormPage
\* mounts with a fresh formState and, without placeholders, pushes '/'
\* again; either way Home and its UploadZone are mounted anew.
ProcessResolves(i, analyses) ==
  /\ i \in 1..Len(upload.pending)
  /\ state' = SetLoading(SetPlaceholders(state, analyses), FALSE)
  /\ page' = IF analyses = <<>> THEN "upload" ELSE "form"
  /\ formState' = InitialFormState
  /\ upload' = [NoUpload EXCEPT !.pending = Without(upload.pending, i),
                                !.received = upload.received,
                                !.calls = upload.calls]
  /\ last' = Did("processed", "")
  /\ UNCHANGED <<inflight, navTimers, sent, streak, writer, editsInFlight, pipe>>

\* the catch block: the request failed or the response has success false
ProcessRejects(i) ==
  /\ i \in 1..Len(upload.pending)
  /\ state' = SetLoading(state, FALSE)
  /\ upload' = [upload EXCEPT !.pending = Without(upload.pending, i),
                              !.localError = IF page = "upload"
                                               THEN Some("Failed to process document")
                                               ELSE @]
  /\ last' = Did("failed", "")
  /\ UNCHANGED <<formState, page, inflight, navTimers, sent, streak, writer,
                 editsInFlight, pipe>>

\* the Back button of the form: router.push('/')
BackHome ==
  /\ page = "form"
  /\ ~formState.isValidating
  /\ page' = "upload"
  /\ last' = Did("home", "")
  /\ UNCHANGED <<state, formState, inflight, navTimers, sent, streak, writer,
                 editsInFlight, pipe, upload>>

----------------------------------------------------------------------------
(* The server's pipeline: detect -> analyze -> fill.  Its state is one     *)
(* record; the form and the review page never read it.                     *)

(* A text is a sequence of one-character strings; a document is the      *)
(* sequence of the texts of its blocks (paragraphs and table cells).  Runs *)
(* and their formats are left out: they decide how a replacement looks,    *)
(* not where it goes.                                                      *)

Letters == {"a", "b", "T", "L", "N"}

\* what may stand between the delimiters of a placeholder: [a-zA-Z0-9_\s]
NameChars == Letters \cup {"_", " "}

\* the delimiter pairs, in priority order
DelimiterPairs ==
  << [open |-> <<"_", "_">>, close |-> <<"_", "_">>],
     [open |-> <<"_">>, close |-> <<"_">>],
     [open |-> <<"[">>, close |-> <<"]">>] >>

StartsWith(text, i, w) ==
  /\ i >= 1
  /\ i + Len(w) - 1 <= Len(text)
  /\ \A k \in 1..Len(w) : text[i + k - 1] = w[k]

\* where a match of the pair p that starts at i can end
MatchEnds(text, i, p) ==
  { j \in i..Len(text) :
      /\ StartsWith(text, i, p.open)
      /\ j - Len(p.close) >= i + Len(p.open)
      /\ StartsWith(text, j - Len(p.close) + 1, p.close)
      /\ \A k \in (i + Len(p.open))..(j - Len(p.close)) : text[k] \in NameChars }

Max(S) == CHOOSE x \in S : \A y \in S : y <= x

\* the matches of the k-th pair from position i on: left to right, the
\* longest match at each start, no two overlapping
RECURSIVE ScanPair(_, _, _)
ScanPair(text, i, k) ==
  IF i > Len(text) THEN {}
  ELSE IF MatchEnds(text, i, DelimiterPairs[k]) = {} THEN ScanPair(text, i + 1, k)
  ELSE LET j == Max(MatchEnds(text, i, DelimiterPairs[k]))
       IN {[from |-> i, to |-> j, kind |-> "explicit", pair |-> k]}
            \cup ScanPair(text, j + 1, k)

Overlap(s, t) == s.from <= t.to /\ t.from <= s.to

\* the pairs are applied in priority order: a match that overlaps a match
\* of an earlier pair is dropped
RECURSIVE ExplicitSpans(_, _, _)
ExplicitSpans(text, k, claimed) ==
  IF k > Len(DelimiterPairs) THEN claimed
  ELSE ExplicitSpans(text, k + 1,
         claimed \cup { s \in ScanPair(text, 1, k) :
                          \A t \in claimed : ~Overlap(s, t) })

\* a label, a colon and nothing but white space up to the end of the block
ImplicitSpans(text) ==
  { [from |-> i, to |-> Len(text), kind |-> "implicit", pair |-> Len(DelimiterPairs) + 1] : i \in
      { i \in 1..Len(text) :
          /\ i = 1 \/ text[i - 1] \notin Letters
          /\ \E c \in (i + 1)..Len(text) :
               /\ text[c] = ":"
               /\ \A k \in i..(c - 1) : text[k] \in Letters
               /\ \A k \in (c + 1)..Len(text) : text[k] = " " } }

\* both strategies merged; an implicit match that overlaps an explicit one
\* is dropped
Spans(text) ==
  LET explicit == ExplicitSpans(text, 1, {})
  IN explicit \cup { s \in ImplicitSpans(text) : \A t \in explicit : ~Overlap(s, t) }

\* the spans of a block in the order the strategies found them: pair by
\* pair, the label fields last
RECURSIVE SortByPair(_)
SortByPair(S) ==
  IF S = {} THEN <<>>
  ELSE LET first == CHOOSE s \in S :
                      \A t \in S : s.pair < t.pair \/ (s.pair = t.pair /\ s.from <= t.from)
       IN <<first>> \o SortByPair(S \ {first})

\* the spans of a block by offset
RECURSIVE SortByOffset(_)
SortByOffset(S) ==
  IF S = {} THEN <<>>
  ELSE LET first == CHOOSE s \in S : \A t \in S : s.from <= t.from
       IN <<first>> \o SortByOffset(S \ {first})

Occurrence(text, b, s) ==
  [raw_text |-> SubSeq(text, s.from, s.to),
   block_index |-> b - 1,
   char_offset |-> s.from - 1,
   kind |-> s.kind]

\* detect(doc), from block b on: reading order is block, then offset
RECURSIVE DetectFrom(_, _)
DetectFrom(doc, b) ==
  IF b > Len(doc) THEN <<>>
  ELSE LET spans == SortByOffset(Spans(doc[b]))
       IN [i \in 1..Len(spans) |-> Occurrence(doc[b], b, spans[i])] \o DetectFrom(doc, b + 1)

Detect(doc) == DetectFrom(doc, 1)

----------------------------------------------------------------------------
(* Disambiguator.  The oracle's answer is an input: its outcome is         *)
(* "unavailable", "timeout" or "response", and the decisions of a response *)
(* give, per occurrence (counted from 1 in detection order),               *)
(* is_same_field_as: 0 for null, or the occurrence it repeats.  A response *)
(* may lack entries or hold nonsense.                                      *)

OracleFailures == {"unavailable", "timeout"}

OracleFailed(outcome) == [outcome |-> outcome, decisions |-> <<>>]

OracleAnswered(decisions) == [outcome |-> "response", decisions |-> decisions]

SameText(occurrences, i) ==
  { j \in 1..Len(occurrences) : occurrences[j].raw_text = occurrences[i].raw_text }

Duplicated(occurrences) ==
  { i \in 1..Len(occurrences) : Cardinality(SameText(occurrences, i)) > 1 }

\* the response answers for every duplicated occurrence, and every answer
\* is null or an earlier occurrence of the same text
WellFormed(occurrences, oracle) ==
  /\ oracle.outcome \notin OracleFailures
  /\ \A i \in Duplicated(occurrences) :
       /\ i \in DOMAIN oracle.decisions
       /\ oracle.decisions[i] \in 0..(i - 1)
       /\ oracle.decisions[i] # 0 =>
            oracle.decisions[i] \in SameText(occurrences, i)

\* the first occurrence of the field that occurrence i was said to repeat
RECURSIVE Root(_, _)
Root(decisions, i) ==
  IF decisions[i] = 0 THEN i ELSE Root(decisions, decisions[i])

\* every occurrence of a text filed under the first occurrence of the text
FieldOfMergingDuplicates(occurrences, oracle, i) ==
  CHOOSE j \in SameText(occurrences, i) : \A k \in SameText(occurrences, i) : j <= k

\* the field an occurrence belongs to, named by the field's first
\* occurrence.  Without a usable answer every occurrence is its own field.
FieldOf(occurrences, oracle, i) ==
  IF i \in Duplicated(occurrences) /\ WellFormed(occurrences, oracle)
    THEN Root(oracle.decisions, i)
    ELSE i

FieldsOfText(occurrences, oracle, i) ==
  { FieldOf(occurrences, oracle, j) : j \in SameText(occurrences, i) }

Digit(k) == <<ToString(k)>>

\* the suffix taken from the occurrence's number in the whole document
FieldIdByOccurrence(occurrences, oracle, r) ==
  IF Cardinality(FieldsOfText(occurrences, oracle, r)) = 1
    THEN occurrences[r].raw_text
    ELSE occurrences[r].raw_text \o <<"#">> \o Digit(r)

\* raw_text for a text that stands for one field, else raw_text#k with k
\* the position of the field among the fields of that text
FieldId(occurrences, oracle, r) ==
  LET fields == FieldsOfText(occurrences, oracle, r)
  IN IF Cardinality(fields) = 1 THEN occurrences[r].raw_text
     ELSE occurrences[r].raw_text \o <<"#">>
            \o Digit(Cardinality({f \in fields : f < r}))

RECURSIVE SortAscending(_)
SortAscending(S) ==
  IF S = {} THEN <<>>
  ELSE LET first == CHOOSE x \in S : \A y \in S : x <= y
       IN <<first>> \o SortAscending(S \ {first})

FieldSchema(occurrences, oracle, r) ==
  LET members == SortAscending({ i \in 1..Len(occurrences) :
                                   FieldOf(occurrences, oracle, i) = r })
  IN [field_id |-> FieldId(occurrences, oracle, r),
      raw_text |-> occurrences[r].raw_text,
      occurrences |-> [k \in 1..Len(members) |-> occurrences[members[k]]]]

\* analyze(occurrences, doc_text): one schema per field, in document order
Analyze(occurrences, oracle) ==
  LET roots == SortAscending({ FieldOf(occurrences, oracle, i) :
                                 i \in 1..Len(occurrences) })
  IN [k \in 1..Len(roots) |-> FieldSchema(occurrences, oracle, roots[k])]

\* whether the schemas come from the oracle or from the heuristic fallback
Analyzed(occurrences, oracle) ==
  Duplicated(occurrences) # {} /\ WellFormed(occurrences, oracle)

----------------------------------------------------------------------------
(* FillEngine.  The value map is a function from keys (texts) to values    *)
(* (texts); a key is the field_id of a schema: the raw text of a           *)
(* placeholder that stands for one field, or raw_text#k.                   *)

HasValue(schema, values) == schema.field_id \in DOMAIN values

\* what filling one occurrence does to its block: an explicit placeholder
\* is replaced as a whole, the value of a label field goes after the label
\* and its white space
Edit(occurrence, value) ==
  [block_index |-> occurrence.block_index,
   char_offset |-> occurrence.char_offset,
   at |-> IF occurrence.kind = "explicit"
            THEN occurrence.char_offset
            ELSE occurrence.char_offset + Len(occurrence.raw_text),
   removed |-> IF occurrence.kind = "explicit" THEN Len(occurrence.raw_text) ELSE 0,
   value |-> value]

\* an occurrence without a value replaced by the empty text
EditsOfBlankingMissing(schemas, values, b) ==
  UNION { { Edit(schemas[k].occurrences[i],
                 IF HasValue(schemas[k], values)
                   THEN values[schemas[k].field_id] ELSE <<>>) :
              i \in { i \in 1..Len(schemas[k].occurrences) :
                        schemas[k].occurrences[i].block_index = b - 1 } } :
          k \in 1..Len(schemas) }

\* only the first occurrence of a schema filled
EditsOfFirstOccurrence(schemas, values, b) ==
  { Edit(schemas[k].occurrences[1], values[schemas[k].field_id]) :
      k \in { k \in 1..Len(schemas) :
                /\ HasValue(schemas[k], values)
                /\ schemas[k].occurrences[1].block_index = b - 1 } }

\* the edits of block b (counted from 1): one per occurrence of a schema
\* that has a value
EditsOf(schemas, values, b) ==
  UNION { { Edit(schemas[k].occurrences[i], values[schemas[k].field_id]) :
              i \in { i \in 1..Len(schemas[k].occurrences) :
                        schemas[k].occurrences[i].block_index = b - 1 } } :
          k \in { k \in 1..Len(schemas) : HasValue(schemas[k], values) } }

RECURSIVE SortEdits(_)
SortEdits(S) ==
  IF S = {} THEN <<>>
  ELSE LET first == CHOOSE e \in S : \A f \in S : e.at <= f.at
       IN <<first>> \o SortEdits(S \ {first})

\* the output is assembled from the untouched text: the text up to the
\* next edit, its value, and on from behind what it replaces
RECURSIVE Assemble(_, _, _)
Assemble(text, edits, pos) ==
  IF edits = <<>> THEN SubSeq(text, pos, Len(text))
  ELSE LET e == Head(edits)
       IN SubSeq(text, pos, e.at) \o e.value
            \o Assemble(text, Tail(edits), e.at + e.removed + 1)

\* the same edits made one after the other, front to back, in the text
\* under construction, each at the offset detection gave it
RECURSIVE ForwardInPlace(_, _)
ForwardInPlace(text, edits) ==
  IF edits = <<>> THEN text
  ELSE LET e == Head(edits)
       IN ForwardInPlace(
            SubSeq(text, 1, e.at) \o e.value \o SubSeq(text, e.at + e.removed + 1, Len(text)),
            Tail(edits))

FillBlockForwardInPlace(text, edits) == ForwardInPlace(text, edits)

FillBlock(text, edits) == Assemble(text, edits, 1)

\* the occurrences filled, in the order the output was written
RECURSIVE FilledFrom(_, _, _, _)
FilledFrom(doc, schemas, values, b) ==
  IF b > Len(doc) THEN <<>>
  ELSE LET edits == SortEdits(EditsOf(schemas, values, b))
       IN [i \in 1..Len(edits) |->
             [block_index |-> edits[i].block_index, char_offset |-> edits[i].char_offset]]
            \o FilledFrom(doc, schemas, values, b + 1)

\* keys that match no schema dropped without a word
FillSilentAboutOrphans(doc, schemas, values) ==
  [output |-> [b \in 1..Len(doc) |->
                 FillBlock(doc[b], SortEdits(EditsOf(schemas, values, b)))],
   filled |-> FilledFrom(doc, schemas, values, 1),
   skipped |-> { schemas[k].field_id : k \in { k \in 1..Len(schemas) :
                                                 ~HasValue(schemas[k], values) } },
   warnings |-> {}]

\* fill(doc, schemas, values): the new document and the reports
Fill(doc, schemas, values) ==
  [output |-> [b \in 1..Len(doc) |->
                 FillBlock(doc[b], SortEdits(EditsOf(schemas, values, b)))],
   filled |-> FilledFrom(doc, schemas, values, 1),
   skipped |-> { schemas[k].field_id : k \in { k \in 1..Len(schemas) :
                                                 ~HasValue(schemas[k], values) } },
   warnings |-> { key \in DOMAIN values :
                    \A k \in 1..Len(schemas) : schemas[k].field_id # key }]

----------------------------------------------------------------------------
(* One run of the pipeline over one document.                              *)

NoResult == [output |-> <<>>, filled |-> <<>>, skipped |-> {}, warnings |-> {}]

NoOracle == OracleFailed("not asked")

\* no document is being processed
NoPipeline ==
  [stage |-> "idle", source |-> <<>>, doc |-> <<>>, occurrences |-> <<>>,
   oracle |-> NoOracle, schemas |-> <<>>, analyzed |-> FALSE,
   values |-> EmptyMap, result |-> NoResult, fills |-> 0]

\* the documents processed
Documents ==
  { << <<"T", ":", " ", "_", "_", "_", " ", " ", "L", ":", " ", "_", "_", "_">> >>,
    << <<"[", "a", "]", "[", "a", "]">>, <<"b", " ", "[", "a", "]">> >>,
    << <<"_", "_", "a", "_", "_", " ", "[", "b", "]", "_", "a", "_">> >>,
    << <<"N", ":", " ">>, <<"[", "a", "]", ":">> >>,
    << <<"a", "b">> >> }

\* what the oracle may answer when asked about n occurrences
OracleAnswers(n) ==
  { OracleFailed(outcome) : outcome \in OracleFailures }
    \cup { OracleAnswered(decisions) :
             decisions \in UNION { [1..m -> 0..n] : m \in {n - 1, n} } }

\* the values filled in: shorter and longer than the placeholders
FillValues == { <<"A">>, <<"B", "o", "b", "b", "y">> }

\* a key that names no field of any document
OrphanKey == <<"[", "z", "]">>

\* the value maps sent for a document: any values for any of its field ids
\* and for the orphan key
ValueMaps(schemas) ==
  LET keys == { schemas[k].field_id : k \in 1..Len(schemas) } \cup { OrphanKey }
  IN UNION { [ks -> FillValues] : ks \in SUBSET keys }

\* the pipeline leaves the form alone
FormUntouched ==
  UNCHANGED <<state, formState, page, inflight, navTimers, sent, last, streak,
              writer, editsInFlight, upload>>

\* detect(doc)
DetectStep ==
  /\ pipe.stage = "parsed"
  /\ pipe' = [pipe EXCEPT !.stage = "detected", !.occurrences = Detect(pipe.doc)]
  /\ FormUntouched

\* a failed oracle call ends the run
FatalOracleFailure(oracle) ==
  IF oracle.outcome \in OracleFailures THEN "failed" ELSE "analyzed"

\* the stage a run is in after analysis, whatever the oracle did
StageAfterAnalysis(oracle) == "analyzed"

\* analyze(occurrences, doc_text) when no text occurs twice: the oracle is
\* not asked
AnalyzeUnique ==
  /\ pipe.stage = "detected"
  /\ Duplicated(pipe.occurrences) = {}
  /\ pipe' = [pipe EXCEPT !.stage = StageAfterAnalysis(NoOracle),
                          !.schemas = Analyze(pipe.occurrences, NoOracle),
                          !.analyzed = Analyzed(pipe.occurrences, NoOracle)]
  /\ FormUntouched

\* analyze(occurrences, doc_text) with duplicates: the oracle is asked once
AnalyzeWithOracle ==
  /\ pipe.stage = "detected"
  /\ Duplicated(pipe.occurrences) # {}
  /\ \E oracle \in OracleAnswers(Len(pipe.occurrences)) :
       pipe' = [pipe EXCEPT !.stage = StageAfterAnalysis(oracle),
                            !.oracle = oracle,
                            !.schemas = Analyze(pipe.occurrences, oracle),
                            !.analyzed = Analyzed(pipe.occurrences, oracle)]
  /\ FormUntouched

\* fill writes into the document model it was given
DocFilledInPlace(doc, output) == output

\* the document model a run holds after a fill: fill works on a copy
DocAfterFill(doc, output) == doc

\* fill(doc, schemas, values), once or again with other values
FillStep ==
  /\ pipe.stage \in {"analyzed", "filled"}
  /\ pipe.fills < MaxFills
  /\ \E values \in ValueMaps(pipe.schemas) :
       LET result == Fill(pipe.doc, pipe.schemas, values)
       IN pipe' = [pipe EXCEPT !.stage = "filled",
                               !.values = values,
                               !.result = result,
                               !.doc = DocAfterFill(pipe.doc, result.output),
                               !.fills = pipe.fills + 1]
  /\ FormUntouched


----------------------------------------------------------------------------
Init ==
  /\ \E ps \in PlaceholderLists :
       /\ state = ProcessedState(ps, [k \in FieldKeys(ps) |-> ""])
       /\ streak = [k \in FieldKeys(ps) |-> NoStreak]
       /\ writer = [k \in FieldKeys(ps) |-> "user"]
  /\ formState = InitialFormState
  /\ page = "form"
  /\ inflight = <<>>
  /\ navTimers = 0
  /\ sent = None
  /\ last = Did("init", "")
  /\ editsInFlight = 0
  /\ pipe = NoPipeline
  /\ upload = NoUpload

Next ==
  \/ \E f \in Keys : \E v \in EnteredValues(f) : HandleFieldChange(f, v)
  \/ \E f \in Keys : HandleAcceptFormatted(f)
  \/ \E f \in Keys : HandleRejectFormatted(f)
  \/ SubmitMissingRequired
  \/ SubmitSend
  \/ BatchResolves
  \/ BatchRejects
  \/ NavigateToReview
  \/ HandleDownload

Spec == Init /\ [][Next]_vars

----------------------------------------------------------------------------
(* The retry loop on its own: the fields are filled in, the user does      *)
(* nothing but press the submit button, the validator answers the same     *)
(* value the same way, and a request may fail but not for ever.            *)

LiveValues(f) == IF f = "[Email]" THEN {"", "bob", "a@b.c"} ELSE {"5000", "abc", FormattedValue}

LiveInit ==
  /\ \E ps \in PlaceholderLists :
       /\ \E vs \in [FieldKeys(ps) -> UNION {LiveValues(k) : k \in FieldKeys(ps)}] :
            /\ \A k \in FieldKeys(ps) : vs[k] \in LiveValues(k)
            /\ state = ProcessedState(ps, vs)
       /\ streak = [k \in FieldKeys(ps) |-> NoStreak]
       /\ writer = [k \in FieldKeys(ps) |-> "user"]
  /\ formState = InitialFormState
  /\ page = "form"
  /\ inflight = <<>>
  /\ navTimers = 0
  /\ sent = None
  /\ last = Did("init", "")
  /\ editsInFlight = 0
  /\ pipe = NoPipeline
  /\ upload = NoUpload

LiveNext ==
  \/ SubmitSend
  \/ StableResolves
  \/ BatchRejects
  \/ NavigateToReview

LiveSpec ==
  /\ LiveInit /\ [][LiveNext]_vars
  /\ WF_vars(SubmitSend)
  /\ WF_vars(StableResolves \/ BatchRejects)
  /\ SF_vars(StableResolves)
  /\ WF_vars(NavigateToReview)

----------------------------------------------------------------------------
(* The review page on its own: any of the documents below, filled in any   *)
(* way.  The third document has a blank that occurs twice and that the     *)
(* analysis told apart by position-indexed ids; in the fourth the second   *)
(* of the two blanks is optional.                                          *)

DownloadLists ==
  { << [placeholder_text |-> "[Name]", placeholder_id |-> "", required |-> TRUE],
       [placeholder_text |-> "[Date]", placeholder_id |-> "", required |-> FALSE] >>,
    << [placeholder_text |-> "___", placeholder_id |-> "___#0", required |-> TRUE],
       [placeholder_text |-> "___", placeholder_id |-> "___#1", required |-> TRUE] >>,
    << [placeholder_text |-> "[Name]", placeholder_id |-> "", required |-> TRUE],
       [placeholder_text |-> "___", placeholder_id |-> "___#0", required |-> TRUE],
       [placeholder_text |-> "___", placeholder_id |-> "___#1", required |-> TRUE] >>,
    << [placeholder_text |-> "___", placeholder_id |-> "___#0", required |-> TRUE],
       [placeholder_text |-> "___", placeholder_id |-> "___#1", required |-> FALSE] >> }

DownloadValues == {"", "Alice", "Bob", "Carol"}

DownloadInit ==
  /\ \E ps \in DownloadLists :
       /\ \E vs \in [FieldKeys(ps) -> DownloadValues] :
            state = ProcessedState(ps, vs)
       /\ streak = [k \in FieldKeys(ps) |-> NoStreak]
       /\ writer = [k \in FieldKeys(ps) |-> "user"]
  /\ formState = InitialFormState
  /\ page = "review"
  /\ inflight = <<>>
  /\ navTimers = 0
  /\ sent = None
  /\ last = Did("init", "")
  /\ editsInFlight = 0
  /\ pipe = NoPipeline
  /\ upload = NoUpload

DownloadNext == HandleDownload

DownloadSpec == DownloadInit /\ [][DownloadNext]_vars

----------------------------------------------------------------------------
(* The pipeline on its own: any of the documents, any answer of the        *)
(* oracle, any value map.                                                  *)

PipelineInit ==
  /\ state = InitialState
  /\ streak = EmptyMap
  /\ writer = EmptyMap
  /\ formState = InitialFormState
  /\ page = "upload"
  /\ inflight = <<>>
  /\ navTimers = 0
  /\ sent = None
  /\ last = Did("init", "")
  /\ editsInFlight = 0
  /\ \E doc \in Documents :
       pipe = [NoPipeline EXCEPT !.stage = "parsed", !.source = doc, !.doc = doc]
  /\ upload = NoUpload

PipelineNext ==
  \/ DetectStep
  \/ AnalyzeUnique
  \/ AnalyzeWithOracle
  \/ FillStep

PipelineSpec == PipelineInit /\ [][PipelineNext]_vars

----------------------------------------------------------------------------
(* The detector on its own: the documents above and every one-block        *)
(* document of up to MaxTextLen characters over a small alphabet.          *)

Alphabet == {"_", "a", "[", "]", ":"}

Texts == UNION { [1..n -> Alphabet] : n \in 0..MaxTextLen }

DetectInit ==
  /\ state = InitialState
  /\ streak = EmptyMap
  /\ writer = EmptyMap
  /\ formState = InitialFormState
  /\ page = "upload"
  /\ inflight = <<>>
  /\ navTimers = 0
  /\ sent = None
  /\ last = Did("init", "")
  /\ editsInFlight = 0
  /\ \E doc \in Documents \cup { <<text>> : text \in Texts } :
       pipe = [NoPipeline EXCEPT !.stage = "parsed", !.source = doc, !.doc = doc]
  /\ upload = NoUpload

DetectNext == DetectStep

DetectSpec == DetectInit /\ [][DetectNext]_vars

----------------------------------------------------------------------------
(* The submit button on its own: the user types into the fields, a blank   *)
(* among the things typed, and presses the button; suggestions are left    *)
(* unanswered.                                                             *)

TypedValues(f) == IF f = "[Email]" THEN {"", "bob"} ELSE {"", " ", "5000"}

SubmitInit == Init

SubmitNext ==
  \/ \E f \in Keys : \E v \in TypedValues(f) : HandleFieldChange(f, v)
  \/ SubmitMissingRequired
  \/ SubmitSend
  \/ BatchResolves
  \/ BatchRejects
  \/ NavigateToReview

SubmitSpec == SubmitInit /\ [][SubmitNext]_vars

----------------------------------------------------------------------------
(* The upload page on its own: files are dropped or chosen, the process    *)
(* requests are answered in any order, the user fills in the form and      *)
(* comes back to upload another document.                                  *)

FileNames ==
  { <<"a", ".", "d", "o", "c", "x">>,
    <<"a", ".", "d", "o", "c">>,
    <<"a", ".", "D", "O", "C", "X">>,
    <<"a", ".", "d", "o", "c", "x", ".", "p">> }

FileSizes == { 0, MaxFileSize, MaxFileSize + 1 }

Files == [name : FileNames, size : FileSizes]

\* the FileList of an event: no file, one file, or a file followed by a
\* .docx of no size
FileLists ==
  { <<>> } \cup { <<f>> : f \in Files }
           \cup { <<f, [name |-> <<"a", ".", "d", "o", "c", "x">>, size |-> 0]>> : f \in Files }

\* the analyses /api/process can return
AnalysesLists == { <<>> } \cup PlaceholderLists

AnalysisKeys == UNION { FieldKeys(ps) : ps \in AnalysesLists }

DragTypes == {"dragenter", "dragover", "dragleave"}

UploadInit ==
  /\ state = InitialState
  /\ streak = [k \in AnalysisKeys |-> NoStreak]
  /\ writer = [k \in AnalysisKeys |-> "user"]
  /\ formState = InitialFormState
  /\ page = "upload"
  /\ inflight = <<>>
  /\ navTimers = 0
  /\ sent = None
  /\ last = Did("init", "")
  /\ editsInFlight = 0
  /\ pipe = NoPipeline
  /\ upload = NoUpload

UploadNext ==
  \/ \E type \in DragTypes : HandleDrag(type)
  \/ \E files \in FileLists : HandleDrop(files)
  \/ \E files \in FileLists : HandleChange(files)
  \/ \E i \in 1..MaxUploads : \E analyses \in AnalysesLists : ProcessResolves(i, analyses)
  \/ \E i \in 1..MaxUploads : ProcessRejects(i)
  \/ \E f \in Keys : \E v \in EnteredValues(f) : HandleFieldChange(f, v)
  \/ BackHome

UploadSpec == UploadInit /\ [][UploadNext]_vars

----------------------------------------------------------------------------
(* FormProvider on its own: its setters called in any order.               *)

ContextLists == AnalysesLists \cup DownloadLists

\* a setter of the provider is called; the pages are not involved
Called(op, st) ==
  /\ state' = st
  /\ last' = Did(op, "")
  /\ UNCHANGED <<formState, page, inflight, navTimers, sent, streak, writer,
                 editsInFlight, pipe, upload>>

ContextInit ==
  /\ state = InitialState
  /\ streak = EmptyMap
  /\ writer = EmptyMap
  /\ formState = InitialFormState
  /\ page = "upload"
  /\ inflight = <<>>
  /\ navTimers = 0
  /\ sent = None
  /\ last = Did("init", "")
  /\ editsInFlight = 0
  /\ pipe = NoPipeline
  /\ upload = NoUpload

ContextNext ==
  \/ \E ps \in ContextLists : Called("setPlaceholders", SetPlaceholders(state, ps))
  \/ Called("nextField", NextField(state))
  \/ Called("previousField", PreviousField(state))
  \/ Called("reset", Reset(state))
  \/ \E file \in Files : Called("setFile", SetFile(state, Some(file)))
  \/ \E isLoading \in BOOLEAN : Called("setLoading", SetLoading(state, isLoading))

ContextSpec == ContextInit /\ [][ContextNext]_vars

----------------------------------------------------------------------------
(* What the form shows for a field, in the words of the validation state   *)
(* machine: the render of FormPage tells the cases apart by                *)
(* validationResult, awaitingConfirmation, is_valid and retryCount >= 3.   *)

StatusIn(fieldStates, f) ==
  IF f \notin DOMAIN fieldStates THEN "Pending"
  ELSE IF fieldStates[f].validationResult = None THEN "Pending"
  ELSE IF fieldStates[f].awaitingConfirmation THEN "AwaitingConfirmation"
  ELSE IF ~fieldStates[f].validationResult[1].is_valid THEN "Rejected"
  ELSE IF fieldStates[f].retryCount >= AutoAcceptRetries THEN "AutoAccepted"
  ELSE "Accepted"

Status(f) == StatusIn(formState.fieldStates, f)

Terminal == {"Accepted", "AutoAccepted"}

\* the form is mounted and has just processed a response
JustResolved == page = "form" /\ last.op = "resolve"

\* ... a response with a result for field f
JustAnswered(f) == JustResolved /\ f \in DOMAIN formState.fieldStates

----------------------------------------------------------------------------
(* C1 *)

----------------------------------------------------------------------------
(* C2 *)

\* C2: when the required fields are filled in, the user keeps pressing the
\* submit button and requests fail only now and then, the form eventually
\* reaches the review page with every validated field Accepted or
\* AutoAccepted, even if the validator rejects a value the same way for ever.
C2_RetryLoopTerminates ==
  <>( /\ page = "review"
      /\ \A f \in DOMAIN formState.fieldStates : Status(f) \in Terminal )

----------------------------------------------------------------------------
(* C3 *)

\* the stored state of the field when the pending submission was sent
PrevReason(f) ==
  IF f \in DOMAIN Head(inflight).fieldStates
    THEN Head(inflight).fieldStates[f].lastErrorMessage ELSE None

PrevCount(f) ==
  IF f \in DOMAIN Head(inflight).fieldStates
    THEN Head(inflight).fieldStates[f].retryCount ELSE 0

\* C3: when a response rejects a field, its attempt count becomes 1 if the
\* reason differs from the field's last rejection reason or there is none,
\* and the previous count plus one if the reason is the same.
C3_RetryCount ==
  [][ (page = "form" /\ inflight # <<>> /\ last'.op = "resolve") =>
        \A f \in DOMAIN formState'.fieldStates :
          LET fs == formState'.fieldStates[f]
          IN fs.lastErrorMessage # None =>
               fs.retryCount = IF PrevReason(f) = fs.lastErrorMessage
                                 THEN PrevCount(f) + 1 ELSE 1 ]_vars

\* one field rejected for the second time with the same reason, the other
\* rejected with a reason that is not the one it was last rejected with
C3_Witness ==
  /\ JustResolved
  /\ \E f \in DOMAIN formState.fieldStates :
       formState.fieldStates[f].retryCount = 2
  /\ \E f \in DOMAIN formState.fieldStates :
       /\ formState.fieldStates[f].retryCount = 1
       /\ streak[f].rejections = 1

----------------------------------------------------------------------------
(* C4 *)

\* C4 as stated: a response that is invalid or ambiguous and carries a
\* formatted alternative, different from the submitted value, at confidence
\* >= 0.6 puts the field in AwaitingConfirmation; one with lower confidence
\* or without an alternative never does.  (A stored retryCount > 0 tells
\* that the response was invalid: the auto-accept overwrites is_valid.)
C4_AwaitingConfirmation ==
  [][ (page = "form" /\ inflight # <<>> /\ last'.op = "resolve") =>
        \A f \in DOMAIN formState'.fieldStates :
          LET fs == formState'.fieldStates[f]
              r == fs.validationResult[1]
          IN /\ ( /\ fs.retryCount > 0 \/ r.is_ambiguous
                  /\ r.formatted_value # ""
                  /\ r.formatted_value # Head(inflight).values[f]
                  /\ r.confidence >= ConfidenceThreshold )
                  => fs.awaitingConfirmation
             /\ (r.confidence < ConfidenceThreshold \/ r.formatted_value = "")
                  => ~fs.awaitingConfirmation ]_vars

----------------------------------------------------------------------------
(* C5 *)

\* C5: while a field awaits confirmation, the suggested value is not in the
\* value map unless the user put it there.
C5_NoWriteBeforeConfirmation ==
  \A f \in Keys :
    (page = "form" /\ Status(f) = "AwaitingConfirmation") =>
      ~ ( /\ writer[f] = "validator"
          /\ state.values[f] = formState.fieldStates[f].validationResult[1].formatted_value )

----------------------------------------------------------------------------
(* C6 *)

\* C6: confirming the suggestion of a field leaves the field Accepted, with
\* the suggested value stored.
C6_ConfirmYieldsAccepted ==
  (page = "form" /\ last.op = "accept") =>
     /\ Status(last.field) = "Accepted"
     /\ state.values[last.field] =
          formState.fieldStates[last.field].validationResult[1].formatted_value

----------------------------------------------------------------------------
(* C7 *)

\* C7: a field that was Accepted or AutoAccepted when a submission was sent
\* is Accepted or AutoAccepted when that submission has completed.
C7_TerminalStatesStay ==
  [][ (page = "form" /\ inflight # <<>> /\ last'.op \in {"resolve", "fail"}) =>
        \A f \in Keys :
          StatusIn(Head(inflight).fieldStates, f) \in Terminal
            => StatusIn(formState'.fieldStates, f) \in Terminal ]_vars

----------------------------------------------------------------------------
(* C8 *)

\* C8: at most one request is pending, one is pending exactly while
\* isValidating, and while one is pending no response has written an
\* attempt count: the counts a submission starts from are those the
\* previous completed submission (and the user's edits since) left.
C8_NoRaceOnAttemptCount ==
  /\ Len(inflight) <= 1
  /\ page = "form" => (formState.isValidating <=> inflight # <<>>)
  /\ (page = "form" /\ inflight # <<>>) =>
       \A f \in DOMAIN formState.fieldStates :
         formState.fieldStates[f] = ClearedFieldState

\* a request is pending that started from a count of 2, and the user has
\* edited a field meanwhile
C8_Witness ==
  /\ page = "form"
  /\ Len(inflight) = 1
  /\ editsInFlight > 0
  /\ \E f \in DOMAIN Head(inflight).fieldStates :
       Head(inflight).fieldStates[f].retryCount = 2

----------------------------------------------------------------------------
(* C9 *)

SameResults(b1, b2) ==
  /\ Len(b1) = Len(b2)
  /\ {b1[i] : i \in 1..Len(b1)} = {b2[i] : i \in 1..Len(b2)}

\* C9: two responses that hold the same results in a different order give
\* the same field states and the same decision whether the form has issues.
C9_OrderIndependent ==
  inflight # <<>> =>
    \A b1, b2 \in ResultBatches(Head(inflight).validations) :
      SameResults(b1, b2) =>
        Processed(b1, Head(inflight)) = Processed(b2, Head(inflight))

----------------------------------------------------------------------------
(* C10 *)

\* the position index of the i-th placeholder among those with its text
PositionIndex(ps, i) ==
  Cardinality({j \in 1..(i - 1) : ps[j].placeholder_text = ps[i].placeholder_text})

IsDuplicate(ps, i) ==
  \E j \in 1..Len(ps) : j # i /\ ps[j].placeholder_text = ps[i].placeholder_text

\* "<raw_text>#<position_index>"
IndexedKey(text, k) == text \o "#" \o ToString(k)

\* C10: the map sent to fill has, for every filled-in placeholder whose text
\* occurs once, the raw text as key, and for every filled-in disambiguated
\* duplicate the key "<raw_text>#<position_index>", each with the value of
\* that placeholder.
C10_KeyShapes ==
  sent # None =>
    \A i \in 1..Len(state.placeholders) :
      LET ps == state.placeholders
          value == state.values[FieldKey(ps[i])]
          key == IF IsDuplicate(ps, i)
                   THEN IndexedKey(ps[i].placeholder_text, PositionIndex(ps, i))
                   ELSE ps[i].placeholder_text
      IN value # "" => (key \in DOMAIN sent[1] /\ sent[1][key] = value)

----------------------------------------------------------------------------
(* C11 *)

\* raw_text#k
SuffixedId(raw_text, k) == raw_text \o <<"#">> \o Digit(k)

\* the run has filled a document in which one text occurs twice, in one
\* block, and nothing else occurs; the oracle gave no usable answer
TwoBlanksFilledByFallback ==
  /\ pipe.stage = "filled"
  /\ Len(pipe.occurrences) = 2
  /\ pipe.occurrences[1].raw_text = pipe.occurrences[2].raw_text
  /\ pipe.occurrences[1].block_index = pipe.occurrences[2].block_index
  /\ ~WellFormed(pipe.occurrences, pipe.oracle)

----------------------------------------------------------------------------
(* C12 *)

\* the occurrences the response names on the way from occurrence i to a
\* null answer
RECURSIVE Chain(_, _)
Chain(decisions, i) ==
  IF decisions[i] = 0 THEN {i} ELSE {i} \cup Chain(decisions, decisions[i])

\* the oracle said that i and j are the same field
MarkedSame(decisions, i, j) == Chain(decisions, i) \cap Chain(decisions, j) # {}

\* the numbers of the occurrences of a schema
MembersOf(schema) ==
  { i \in 1..Len(pipe.occurrences) :
      \E k \in 1..Len(schema.occurrences) : schema.occurrences[k] = pipe.occurrences[i] }

\* C12: two occurrences that a usable oracle response marked as distinct
\* are never in one schema, and without a usable response (oracle
\* unavailable, timed out or malformed) every schema has exactly one
\* occurrence; either way every occurrence is in exactly one schema.
C12_NeverMerges ==
  pipe.stage \in {"analyzed", "filled"} =>
    /\ \A i \in 1..Len(pipe.occurrences) :
         Cardinality({ k \in 1..Len(pipe.schemas) : i \in MembersOf(pipe.schemas[k]) }) = 1
    /\ \A k \in 1..Len(pipe.schemas) :
         /\ Len(pipe.schemas[k].occurrences) >= 1
         /\ WellFormed(pipe.occurrences, pipe.oracle) =>
              \A i, j \in MembersOf(pipe.schemas[k]) :
                i # j => MarkedSame(pipe.oracle.decisions, i, j)
         /\ ~WellFormed(pipe.occurrences, pipe.oracle) =>
              Len(pipe.schemas[k].occurrences) = 1

\* three occurrences of one text: the oracle merged two of them and kept
\* the third apart
C12_Witness ==
  /\ pipe.stage = "analyzed"
  /\ WellFormed(pipe.occurrences, pipe.oracle)
  /\ Len(pipe.occurrences) = 3
  /\ Len(pipe.schemas) = 2
  /\ \E k \in 1..2 : Len(pipe.schemas[k].occurrences) = 2

----------------------------------------------------------------------------
(* C13 *)

\* the schema an occurrence belongs to
SchemaOf(o) ==
  CHOOSE k \in 1..Len(pipe.schemas) :
    \E i \in 1..Len(pipe.schemas[k].occurrences) : pipe.schemas[k].occurrences[i] = o

AllOccurrences == { pipe.occurrences[i] : i \in 1..Len(pipe.occurrences) }

Valued(o) == pipe.schemas[SchemaOf(o)].field_id \in DOMAIN pipe.values

ValueOf(o) == pipe.values[pipe.schemas[SchemaOf(o)].field_id]

\* by how much filling occurrence o lengthens its block
Growth(o) ==
  IF ~Valued(o) THEN 0
  ELSE IF o.kind = "explicit" THEN Len(ValueOf(o)) - Len(o.raw_text)
  ELSE Len(ValueOf(o))

RECURSIVE TotalGrowth(_)
TotalGrowth(S) ==
  IF S = {} THEN 0
  ELSE LET o == CHOOSE x \in S : TRUE IN Growth(o) + TotalGrowth(S \ {o})

\* the occurrences of o's block that stand before o
Before(o) ==
  { p \in AllOccurrences :
      p.block_index = o.block_index /\ p.char_offset < o.char_offset }

\* where the text at o's offset is found in the output
Moved(o) == o.char_offset + TotalGrowth(Before(o))

\* C13: after a fill, every occurrence of a schema that has no value in the
\* value map still shows its placeholder text in the output, at its place
\* (moved only by what was filled in before it), with nothing inserted
\* behind a label; the schema is in the skipped report; the fill completes
\* with every block present.
C13_MissingValueLeftVerbatim ==
  pipe.stage = "filled" =>
    /\ Len(pipe.result.output) = Len(pipe.source)
    /\ \A o \in AllOccurrences :
         ~Valued(o) =>
           LET out == pipe.result.output[o.block_index + 1]
               text == pipe.source[o.block_index + 1]
           IN /\ pipe.schemas[SchemaOf(o)].field_id \in pipe.result.skipped
              /\ Moved(o) + Len(o.raw_text) <= Len(out)
              /\ SubSeq(out, Moved(o) + 1, Moved(o) + Len(o.raw_text)) = o.raw_text
              /\ o.kind = "implicit" => Len(out) = Len(text) + TotalGrowth(Before(o))

\* a blank left as it was, behind a blank that was filled with a longer
\* value
C13_Witness ==
  /\ pipe.stage = "filled"
  /\ \E o \in AllOccurrences :
       /\ ~Valued(o)
       /\ TotalGrowth(Before(o)) > 0
       /\ pipe.schemas[SchemaOf(o)].field_id \in pipe.result.skipped

----------------------------------------------------------------------------
(* C14 *)

\* the keys of the value map that are the field_id of no schema
Orphans ==
  { key \in DOMAIN pipe.values :
      \A k \in 1..Len(pipe.schemas) : pipe.schemas[k].field_id # key }

\* the value map without its orphaned keys
WithoutOrphans == [key \in (DOMAIN pipe.values) \ Orphans |-> pipe.values[key]]

----------------------------------------------------------------------------
(* C15 *)

----------------------------------------------------------------------------
(* C16 *)

\* C16: every occurrence detect emits lies in the document (its block
\* exists and the block's text from char_offset on, for the length of
\* raw_text, is raw_text), and the occurrences are listed by block and then
\* by offset, strictly: no two at the same position.
C16_OccurrencesAddressTheirText ==
  pipe.stage \notin {"idle", "parsed"} =>
    /\ \A i \in 1..Len(pipe.occurrences) :
         LET o == pipe.occurrences[i]
         IN /\ o.block_index + 1 \in 1..Len(pipe.source)
            /\ o.char_offset >= 0
            /\ Len(o.raw_text) > 0
            /\ o.char_offset + Len(o.raw_text) <= Len(pipe.source[o.block_index + 1])
            /\ SubSeq(pipe.source[o.block_index + 1],
                      o.char_offset + 1, o.char_offset + Len(o.raw_text)) = o.raw_text
    /\ \A i, j \in 1..Len(pipe.occurrences) :
         i < j =>
           \/ pipe.occurrences[i].block_index < pipe.occurrences[j].block_index
           \/ /\ pipe.occurrences[i].block_index = pipe.occurrences[j].block_index
              /\ pipe.occurrences[i].char_offset < pipe.occurrences[j].char_offset

\* a block where a later delimiter pair matches before an earlier one
C16_Witness ==
  /\ pipe.stage = "detected"
  /\ \E i, j \in 1..Len(pipe.occurrences) :
       /\ i < j
       /\ pipe.occurrences[i].raw_text = <<"[", "a", "]">>
       /\ pipe.occurrences[j].raw_text = <<"_", "a", "_">>
       /\ pipe.occurrences[i].block_index = pipe.occurrences[j].block_index

----------------------------------------------------------------------------
(* C17 *)

InBlock(b) == { o \in AllOccurrences : o.block_index = b - 1 }

\* the q-th character of block b was replaced by a value
Replaced(b, q) ==
  \E o \in InBlock(b) :
    /\ Valued(o)
    /\ o.kind = "explicit"
    /\ o.char_offset < q
    /\ q <= o.char_offset + Len(o.raw_text)

\* the occurrences of block b whose span ends before the q-th character
EndedBefore(b, q) ==
  { o \in InBlock(b) : o.kind = "explicit" /\ o.char_offset + Len(o.raw_text) < q }

\* where the value of o starts in the source: at the placeholder, or
\* behind the label and its white space
At(o) ==
  IF o.kind = "explicit" THEN o.char_offset ELSE o.char_offset + Len(o.raw_text)

\* C17: in every block of a filled document each value stands at the
\* offset detection gave its occurrence, moved only by what the values
\* before it added or took away; every character outside the replaced
\* spans is kept, in its place moved the same way; and the block has
\* grown by exactly what the values added.
C17_ReplacedAtOriginalOffsets ==
  pipe.stage = "filled" =>
    \A b \in 1..Len(pipe.source) :
      LET text == pipe.source[b]
          out == pipe.result.output[b]
      IN /\ Len(out) = Len(text) + TotalGrowth(InBlock(b))
         /\ \A o \in InBlock(b) :
              Valued(o) =>
                LET start == At(o) + TotalGrowth(Before(o))
                IN /\ start + Len(ValueOf(o)) <= Len(out)
                   /\ SubSeq(out, start + 1, start + Len(ValueOf(o))) = ValueOf(o)
         /\ \A q \in 1..Len(text) :
              ~Replaced(b, q) =>
                LET moved == q + TotalGrowth(EndedBefore(b, q))
                IN moved \in 1..Len(out) /\ out[moved] = text[q]

\* two placeholders of one block filled, the first with a value longer
\* than the placeholder, the second with a shorter one, text between them
C17_Witness ==
  /\ pipe.stage = "filled"
  /\ \E o, p \in AllOccurrences :
       /\ o.block_index = p.block_index
       /\ o.char_offset + Len(o.raw_text) < p.char_offset
       /\ Valued(o) /\ Valued(p)
       /\ Len(ValueOf(o)) > Len(o.raw_text)
       /\ Len(ValueOf(p)) < Len(p.raw_text)

----------------------------------------------------------------------------
(* C18 *)

\* the oracle was asked and gave nothing usable: no answer in time, or a
\* response with entries missing or pointing nowhere sensible
OracleUnusable ==
  /\ pipe.oracle # NoOracle
  /\ ~WellFormed(pipe.occurrences, pipe.oracle)

\* the position of occurrence i among the occurrences of its text
PositionInText(i) ==
  Cardinality({ j \in SameText(pipe.occurrences, i) : j < i })

----------------------------------------------------------------------------
(* C19 *)

Position(o) == [block_index |-> o.block_index, char_offset |-> o.char_offset]

\* how often the fill wrote at the position of o
TimesFilled(o) ==
  Cardinality({ i \in 1..Len(pipe.result.filled) : pipe.result.filled[i] = Position(o) })

\* C19: a fill writes once at every occurrence of every schema that has a
\* value, merged schemas with several occurrences included, never at an
\* occurrence of a schema without one, in document order; and each of
\* these occurrences shows the schema's value in the output.
C19_EveryOccurrenceOnce ==
  pipe.stage = "filled" =>
    /\ \A o \in AllOccurrences : TimesFilled(o) = IF Valued(o) THEN 1 ELSE 0
    /\ \A i, j \in 1..Len(pipe.result.filled) :
         i < j =>
           \/ pipe.result.filled[i].block_index < pipe.result.filled[j].block_index
           \/ /\ pipe.result.filled[i].block_index = pipe.result.filled[j].block_index
              /\ pipe.result.filled[i].char_offset < pipe.result.filled[j].char_offset
    /\ \A o \in AllOccurrences :
         Valued(o) =>
           LET out == pipe.result.output[o.block_index + 1]
               start == At(o) + TotalGrowth(Before(o))
           IN /\ start + Len(ValueOf(o)) <= Len(out)
              /\ SubSeq(out, start + 1, start + Len(ValueOf(o))) = ValueOf(o)

\* a schema the oracle merged from three occurrences in two blocks, filled
C19_Witness ==
  /\ pipe.stage = "filled"
  /\ \E k \in 1..Len(pipe.schemas) :
       /\ Len(pipe.schemas[k].occurrences) = 3
       /\ pipe.schemas[k].field_id \in DOMAIN pipe.values
       /\ pipe.schemas[k].field_id = pipe.schemas[k].raw_text
  /\ Len(pipe.result.filled) = 3

----------------------------------------------------------------------------
(* C20 *)

\* C20: when the response just processed leaves a field rejected or
\* awaiting confirmation (an invalid result with fewer than three identical
\* rejections in a row), the form has issues and processing the response
\* neither schedules the navigation to /review nor writes a value,
\* whatever else the response holds.
C20_NoNavigationWithIssues ==
  [][ ( /\ page = "form"
        /\ inflight # <<>>
        /\ last'.op = "resolve"
        /\ \E f \in DOMAIN formState'.fieldStates :
             StatusIn(formState'.fieldStates, f) \in {"Rejected", "AwaitingConfirmation"} )
      => ( /\ formState'.hasIssues
           /\ navTimers' = navTimers
           /\ state' = state ) ]_vars

----------------------------------------------------------------------------
(* C21 *)

\* C21: when the response just processed auto-accepts a field (its third
\* identical rejection in a row), the value stored for that field is the
\* one that was stored before the response was processed: processing the
\* response does not put a value of the validator's in its place.
C21_AutoAcceptKeepsInput ==
  [][ (page = "form" /\ inflight # <<>> /\ last'.op = "resolve") =>
        \A f \in DOMAIN formState'.fieldStates :
          StatusIn(formState'.fieldStates, f) = "AutoAccepted"
            => state'.values[f] = state.values[f] ]_vars

----------------------------------------------------------------------------
(* C22 *)

\* a value that is empty or holds white space only
Blank(value) == value \in {"", " "}

\* some required placeholder has a blank value
RequiredBlank ==
  \E i \in 1..Len(state.placeholders) :
    /\ state.placeholders[i].required
    /\ Blank(state.values[FieldKey(state.placeholders[i])])

\* the fields of the request the step has just sent
FieldsSent(request) ==
  { request.validations[i].field : i \in 1..Len(request.validations) }

\* C22: pressing the submit button while a required placeholder is blank
\* sends no request, sets hasIssues and changes nothing else: neither the
\* page nor the navigation timer, nor a field's validation state or attempt
\* count, nor a stored value.  And a request that is sent never holds an
\* optional placeholder whose value is empty.
C22_MissingRequiredSendsNothing ==
  [][ /\ (SubmitEnabled /\ RequiredBlank /\ last'.op \in {"missing", "send"}) =>
           /\ inflight' = inflight
           /\ formState'.hasIssues
           /\ formState'.fieldStates = formState.fieldStates
           /\ formState'.isValidating = formState.isValidating
           /\ state' = state
           /\ page' = page
           /\ navTimers' = navTimers
      /\ (SubmitEnabled /\ last'.op = "send") =>
           /\ Len(inflight') = Len(inflight) + 1
           /\ \A i \in 1..Len(state.placeholders) :
                ( /\ ~state.placeholders[i].required
                  /\ state.values[FieldKey(state.placeholders[i])] = "" )
                => FieldKey(state.placeholders[i])
                     \notin FieldsSent(inflight'[Len(inflight')]) ]_vars

\* the button was pressed with white space in the required field while the
\* other field stood rejected: the rejection and its count are still there
C22_Witness ==
  /\ page = "form"
  /\ last.op = "missing"
  /\ formState.hasIssues
  /\ inflight = <<>>
  /\ \E i \in 1..Len(state.placeholders) :
       /\ state.placeholders[i].required
       /\ state.values[FieldKey(state.placeholders[i])] = " "
  /\ \E f \in DOMAIN formState.fieldStates :
       /\ formState.fieldStates[f].retryCount >= 1
       /\ state.values[f] # ""

----------------------------------------------------------------------------
(* C23 *)

\* the fields other than f keep their validation state, attempt count and
\* stored value over the step
OthersKept(f) ==
  \A g \in Keys \ {f} :
    /\ g \in DOMAIN formState'.fieldStates <=> g \in DOMAIN formState.fieldStates
    /\ g \in DOMAIN formState.fieldStates =>
         formState'.fieldStates[g] = formState.fieldStates[g]
    /\ state'.values[g] = state.values[g]

\* field f has no result, awaits no confirmation, has count 0 and no reason
Cleared(f) ==
  /\ f \in DOMAIN formState'.fieldStates
  /\ formState'.fieldStates[f].validationResult = None
  /\ ~formState'.fieldStates[f].awaitingConfirmation
  /\ formState'.fieldStates[f].retryCount = 0
  /\ formState'.fieldStates[f].lastErrorMessage = None

\* C23: editing a field clears the validation state of that field and of no
\* other, and changes no other field's stored value; dismissing a suggested
\* value does the same and changes no stored value at all.
C23_EditClearsOnlyItsField ==
  [][ /\ (page = "form" /\ last'.op = "edit") =>
           (Cleared(last'.field) /\ OthersKept(last'.field))
      /\ (page = "form" /\ last'.op = "reject") =>
           (Cleared(last'.field) /\ OthersKept(last'.field) /\ state' = state) ]_vars

\* a suggestion for one field has just been dismissed while the other field
\* stands rejected with its count
C23_Witness ==
  /\ page = "form"
  /\ last.op = "reject"
  /\ formState.fieldStates[last.field].validationResult = None
  /\ state.values[last.field] # ""
  /\ \E g \in DOMAIN formState.fieldStates :
       /\ g # last.field
       /\ formState.fieldStates[g].retryCount >= 1
       /\ state.values[g] # ""

----------------------------------------------------------------------------
(* C24 *)

\* the stored value of the i-th placeholder
StoredValue(i) == state.values[FieldKey(state.placeholders[i])]

\* the placeholders with the text of the i-th
Sharing(i) ==
  { j \in 1..Len(state.placeholders) :
      state.placeholders[j].placeholder_text = state.placeholders[i].placeholder_text }

\* the i-th placeholder shares its text with one that holds another value
HoldsItsOwn(i) == \E j \in Sharing(i) : StoredValue(j) # StoredValue(i)

\* every key of the map is the raw text or the position-indexed key of a
\* placeholder whose stored value is not empty
OnlyFilledIn(valuesForBackend) ==
  \A key \in DOMAIN valuesForBackend :
    \E i \in 1..Len(state.placeholders) :
      /\ StoredValue(i) # ""
      /\ key \in { state.placeholders[i].placeholder_text,
                   PositionKey(state.placeholders[i].placeholder_text, i - 1) }

\* the filled-in placeholders that share a text and hold different values
\* have their value under their position-indexed key
OwnValueAtPosition(valuesForBackend) ==
  \A i \in 1..Len(state.placeholders) :
    (HoldsItsOwn(i) /\ StoredValue(i) # "") =>
      LET key == PositionKey(state.placeholders[i].placeholder_text, i - 1)
      IN key \in DOMAIN valuesForBackend /\ valuesForBackend[key] = StoredValue(i)

\* C24 as stated: the map sent to fill has entries for filled-in
\* placeholders only; of the placeholders that share a text and hold
\* different values, each has its value under its position-indexed key and
\* the last one in list order has its value under the raw text.
C24_RawTextCarriesLast ==
  sent # None =>
    /\ OnlyFilledIn(sent[1])
    /\ OwnValueAtPosition(sent[1])
    /\ \A i \in 1..Len(state.placeholders) :
         (HoldsItsOwn(i) /\ i = Max(Sharing(i))) =>
           LET text == state.placeholders[i].placeholder_text
           IN text \in DOMAIN sent[1] /\ sent[1][text] = StoredValue(i)

\* C24 amended: the same, with the raw text carrying the value of the last
\* of these placeholders whose stored value is not empty.
C24_RawTextCarriesLastFilledIn ==
  sent # None =>
    /\ OnlyFilledIn(sent[1])
    /\ OwnValueAtPosition(sent[1])
    /\ \A i \in 1..Len(state.placeholders) :
         ( /\ HoldsItsOwn(i)
           /\ StoredValue(i) # ""
           /\ i = Max({ j \in Sharing(i) : StoredValue(j) # "" }) ) =>
           LET text == state.placeholders[i].placeholder_text
           IN text \in DOMAIN sent[1] /\ sent[1][text] = StoredValue(i)

\* a map was sent for a document whose blank occurs twice, filled in with
\* two different values, next to a placeholder that was left empty
C24_Witness ==
  /\ sent # None
  /\ \E i, j \in 1..Len(state.placeholders) :
       /\ i < j
       /\ j \in Sharing(i)
       /\ StoredValue(i) # ""
       /\ StoredValue(j) # ""
       /\ StoredValue(i) # StoredValue(j)
       /\ sent[1][state.placeholders[i].placeholder_text] = StoredValue(j)
       /\ sent[1][PositionKey(state.placeholders[i].placeholder_text, i - 1)] = StoredValue(i)
  /\ \E k \in 1..Len(state.placeholders) :
       /\ StoredValue(k) = ""
       /\ state.placeholders[k].placeholder_text \notin DOMAIN sent[1]

----------------------------------------------------------------------------
(* C25 *)

\* prevFieldState?.retryCount || 0 and prevFieldState?.lastErrorMessage
CountIn(fieldStates, f) ==
  IF f \in DOMAIN fieldStates THEN fieldStates[f].retryCount ELSE 0

ReasonIn(fieldStates, f) ==
  IF f \in DOMAIN fieldStates THEN fieldStates[f].lastErrorMessage ELSE None

\* C25: a request that fails, with no edit made while it was pending,
\* leaves every stored value as it was and every field with the attempt
\* count and the last rejection reason it had when the request was sent; it
\* clears isValidating, sets hasIssues and does not navigate.
C25_FailedRequestKeepsCounts ==
  [][ ( /\ page = "form"
        /\ inflight # <<>>
        /\ editsInFlight = 0
        /\ last'.op = "fail" )
      => ( /\ state' = state
           /\ state'.values = Head(inflight).values
           /\ \A f \in Keys :
                /\ CountIn(formState'.fieldStates, f) = PrevCount(f)
                /\ ReasonIn(formState'.fieldStates, f) = PrevReason(f)
           /\ ~formState'.isValidating
           /\ formState'.hasIssues
           /\ page' = page
           /\ navTimers' = navTimers ) ]_vars

----------------------------------------------------------------------------
(* C26 *)

\* the last event handed a file to handleFileSelect
JustSelected ==
  /\ last.op \in {"drop", "change"}
  /\ upload.received # <<>>
  /\ ValidateFile(upload.received[1])

\* C26: while a process request is pending state.isLoading is true, when
\* none is pending it is false, and when a file has just been selected the
\* placeholders and the values of the upload before are gone.
C26_LoadingWhileProcessing ==
  /\ upload.pending # <<>> => state.isLoading
  /\ upload.pending = <<>> => ~state.isLoading
  /\ JustSelected => (state.placeholders = <<>> /\ state.values = EmptyMap)

----------------------------------------------------------------------------
(* C27 *)

----------------------------------------------------------------------------
(* C28 *)

\* C28: whatever setters were called, currentFieldIndex is at least 0 and
\* at most max(0, placeholders.length - 1), and getCurrentField returns
\* null only when there are no placeholders.
C28_IndexWithinList ==
  /\ 0 <= state.currentFieldIndex
  /\ state.currentFieldIndex <=
       (IF Len(state.placeholders) - 1 > 0 THEN Len(state.placeholders) - 1 ELSE 0)
  /\ GetCurrentField(state) = None => state.placeholders = <<>>

====
